---- MODULE Spec2Model ----
(***************************************************************************)
(* The trading simulation engine of src/python/src/environment/            *)
(* trading_env.py (class TradingEnvironment): the ledger, the reward       *)
(* function and the episode cursor, as a state machine over one engine     *)
(* instance.  The candle series and the construction parameters are chosen *)
(* in Init; reset() and step(action) are the actions.                      *)
(*                                                                         *)
(* Python floats are modelled as exact rationals [n, d] in lowest terms:   *)
(* every arithmetic step of the code is one rational operation here, so    *)
(* the ledger variables state the code's real-number semantics.  The       *)
(* variable floats holds, beside them, the values the accumulators of      *)
(* _close_position take when each of its operations rounds to the nearest  *)
(* binary floating-point number (ties to even, as IEEE 754 arithmetic      *)
(* does) of floats.bits significand bits.                                  *)
(***************************************************************************)
EXTENDS Integers, Sequences, FiniteSets, TLC

\* ------------------------------------------------------------------ bounds
\* longest candle series
MaxLen == 3
\* closes of the enumerated series range over 1..MaxPrice
MaxPrice == 2
\* window sizes range over 1..MaxWindow
MaxWindow == 2
\* significand width of the rounded arithmetic (53 in a Python float)
MantissaBits == 14

\* --------------------------------------------------------------- rationals
Abs(x) == IF x < 0 THEN -x ELSE x

RECURSIVE Gcd(_, _)
Gcd(a, b) == IF b = 0 THEN a ELSE Gcd(b, a % b)

Lcm(a, b) == (a \div Gcd(a, b)) * b

\* the rational n/d (d > 0) in lowest terms
Rat(n, d) == LET g == Gcd(Abs(n), d) IN [n |-> n \div g, d |-> d \div g]

RInt(i) == [n |-> i, d |-> 1]
Zero == RInt(0)

RNeg(a) == [n |-> -a.n, d |-> a.d]
RAbs(a) == [n |-> Abs(a.n), d |-> a.d]
RAdd(a, b) == LET l == Lcm(a.d, b.d) IN Rat(a.n * (l \div a.d) + b.n * (l \div b.d), l)
RSub(a, b) == RAdd(a, RNeg(b))
RMul(a, b) == LET x == Rat(a.n, b.d)
                  y == Rat(b.n, a.d)
              IN  [n |-> x.n * y.n, d |-> x.d * y.d]
\* a / b for b # 0
RDiv(a, b) == RMul(a, IF b.n < 0 THEN [n |-> -b.d, d |-> -b.n] ELSE [n |-> b.d, d |-> b.n])
RLt(a, b) == a.n * b.d < b.n * a.d
RMin(a, b) == IF RLt(b, a) THEN b ELSE a

\* ------------------------------------------------------------------- state
VARIABLES
    data,               \* the candle series: the sequence of its closes
    candles,            \* the other columns of the series: open, high, low, volume
    window_size, commission_rate, slippage_rate, initial_balance, max_position_size,
    current_step,       \* the step cursor (0-based index into data)
    max_steps,
    balance, position, entry_price, total_pnl, trades_count,
    trade_history, pnl_history,
    op,                 \* the last call: "init", "reset", "step", "get_statistics"
    error,              \* "none", or the exception the last call raised
    action,             \* the action the last step() was called with
    reward, done, info, \* what the last completed step() / reset() returned
    truncated,          \* the truncated flag the last completed step() returned
    observation,        \* the observation the last completed call returned
    statistics,         \* what the last get_statistics() returned
    floats,             \* balance, total_pnl and the recorded pnl values as floats
                        \* of floats.bits significand bits hold them (bits = 0:
                        \* not tracked)
    earlier,            \* the run of the engine built before this one on the same
                        \* series: the actions it was stepped with and what each
                        \* step left (phase "off": none is kept)
    other               \* a second instance built on the same series object: its
                        \* own fields and the outcome of the last call on it

config == <<data, candles, window_size, commission_rate, slippage_rate, initial_balance,
            max_position_size, max_steps>>
ledger == <<balance, position, entry_price, total_pnl, trades_count, trade_history>>
vars == <<config, ledger, current_step, pnl_history, op, error, action, reward, done, info,
          truncated, observation, statistics, floats, earlier, other>>

\* ---------------------------------------------------------- float rounding
RECURSIVE Pow2(_)
Pow2(k) == IF k = 0 THEN 1 ELSE 2 * Pow2(k - 1)

\* 2^e as a rational, e an integer
Spacing(e) == IF e >= 0 THEN RInt(Pow2(e)) ELSE [n |-> 1, d |-> Pow2(-e)]

\* n/d > 0 written as (n1/d1) * 2^e with hi/2 <= n1/d1 < hi, hi = 2^p: 2^e is
\* the spacing of the p-bit floats around n/d
RECURSIVE Scaled(_, _, _, _)
Scaled(n, d, e, hi) ==
    LET over == n \div d >= hi
        under == 2 * (n \div d) < hi
    IN  IF ~over /\ ~under
        THEN [n |-> n, d |-> d, e |-> e]
        ELSE Scaled(IF under /\ d % 2 = 1 THEN 2 * n ELSE n,
                    IF over THEN 2 * d ELSE IF d % 2 = 0 THEN d \div 2 ELSE d,
                    IF over THEN e + 1 ELSE e - 1,
                    hi)

\* the unit in the last place of the p-bit floats around x # 0
Ulp(x, p) == Spacing(Scaled(Abs(x.n), x.d, 0, Pow2(p)).e)

\* x rounded to the nearest float of p significand bits, ties to even
Round(x, p) ==
    IF x.n = 0 THEN x
    ELSE LET s == Scaled(Abs(x.n), x.d, 0, Pow2(p))
             q == s.n \div s.d
             rem == s.n - q * s.d
             m == IF 2 * rem > s.d \/ (2 * rem = s.d /\ q % 2 = 1) THEN q + 1 ELSE q
         IN  RMul(RInt(IF x.n < 0 THEN -m ELSE m), Spacing(s.e))

\* action encoding of the action space
HOLD == 0
BUY == 1
SELL == 2
\* Discrete(3)
NumActions == 3
ActionSpaceContains(a) == a \in 0 .. (NumActions - 1)

\* the action values step() is called with: the three valid ones and two invalid
ActionInputs == {-1, HOLD, BUY, SELL, 3}
\* the value of action while no step() has been called since construction or reset
NoAction == 0 - NumActions

\* data.iloc[i]['close'], i 0-based
Close(i) == data[i + 1]

\* the caller's candle series: all series of closes in 1..MaxPrice of length
\* 1..MaxLen, and the series of the scenario documented for the engine (closes
\* 100, 101, 99, 102)
ScenarioCloses == <<100, 101, 99, 102>>
SmallSeries == UNION {[1 .. n -> 1 .. MaxPrice] : n \in 1 .. MaxLen}
Series == SmallSeries \cup {ScenarioCloses}

\* candles whose open, high and low are the close, with unit volume
PlainCandles(d) ==
    [i \in 1 .. Len(d) |-> [open |-> d[i], high |-> d[i], low |-> d[i], volume |-> 1]]

DefaultCommission == Rat(4, 10000)
DefaultSlippage == Rat(1, 10000)
DefaultBalance == RInt(10000)
PositionSizes == {Rat(1, 10), RInt(1)}
ActivityPenalty == Rat(1, 10000)

\* the account state as one value
Ledger == [balance |-> balance, position |-> position, entry_price |-> entry_price,
           total_pnl |-> total_pnl, trades_count |-> trades_count,
           trade_history |-> trade_history]

\* ---------------------------------------------------------- _close_position
\* the realized PnL of closing position pos, entered at entry, at price
\* a PnL taken relative to the exit price
ClosePnlOverExit(pos, entry, price) ==
    IF pos.n > 0
    THEN RMul(RDiv(RInt(price - entry), RInt(price)), RAbs(pos))
    ELSE RMul(RDiv(RInt(entry - price), RInt(price)), RAbs(pos))

\* a PnL net of commission and slippage on the closed position
ClosePnlNetOfCosts(pos, entry, price) ==
    LET gross == IF pos.n > 0
                 THEN RMul(RDiv(RInt(price - entry), RInt(entry)), RAbs(pos))
                 ELSE RMul(RDiv(RInt(entry - price), RInt(entry)), RAbs(pos))
    IN  RSub(gross, RMul(RAbs(pos), RAdd(commission_rate, slippage_rate)))

ClosePnl(pos, entry, price) ==
    IF pos.n > 0
    THEN RMul(RDiv(RInt(price - entry), RInt(entry)), RAbs(pos))
    ELSE RMul(RDiv(RInt(entry - price), RInt(entry)), RAbs(pos))

TradeRecord(L, price, pnl, step) ==
    [entry_price |-> L.entry_price, exit_price |-> price, position |-> L.position,
     pnl |-> pnl, step |-> step]

\* the pnl _close_position computes for the trade of record rec, each of its
\* operations rounded to p bits
FloatPnl(rec, p) ==
    LET move == IF rec.position.n > 0
                THEN RInt(rec.exit_price - rec.entry_price)
                ELSE RInt(rec.entry_price - rec.exit_price)
        ratio == Round(RDiv(Round(move, p), RInt(rec.entry_price)), p)
    IN  Round(RMul(ratio, RAbs(rec.position)), p)

\* the float accumulators after a closure that leaves total_pnl alone
CloseFloatsBalanceOnly(F, rec) ==
    LET pnl == FloatPnl(rec, F.bits)
    IN  [F EXCEPT !.balance = Round(RAdd(F.balance, pnl), F.bits),
                  !.pnls = Append(F.pnls, pnl)]

\* the float accumulators after the closure recorded as rec:
\* total_pnl += pnl, balance += pnl, and the pnl stored in the trade record
CloseFloats(F, rec) ==
    LET pnl == FloatPnl(rec, F.bits)
    IN  [F EXCEPT !.total_pnl = Round(RAdd(F.total_pnl, pnl), F.bits),
                  !.balance = Round(RAdd(F.balance, pnl), F.bits),
                  !.pnls = Append(F.pnls, pnl)]

\* the float accumulators after a call that took the trade history from before
\* to after
FloatsAfter(F, before, after) ==
    IF F.bits > 0 /\ Len(after) > Len(before)
    THEN CloseFloats(F, after[Len(after)])
    ELSE F

\* the float accumulators reset() leaves
FloatsAtReset(bits) ==
    [bits |-> bits, balance |-> initial_balance, total_pnl |-> Zero, pnls |-> <<>>]

\* a closure that books the PnL in total_pnl only
ClosePositionNoBalance(L, price, step) ==
    IF L.position # Zero
    THEN LET pnl == ClosePnl(L.position, L.entry_price, price)
         IN  [L EXCEPT !.total_pnl = RAdd(L.total_pnl, pnl),
                       !.trade_history = Append(L.trade_history, TradeRecord(L, price, pnl, step)),
                       !.position = Zero,
                       !.entry_price = 0]
    ELSE L

\* a closure that counts as a trade of its own
ClosePositionCounted(L, price, step) ==
    IF L.position # Zero
    THEN LET pnl == ClosePnl(L.position, L.entry_price, price)
         IN  [L EXCEPT !.total_pnl = RAdd(L.total_pnl, pnl),
                       !.balance = RAdd(L.balance, pnl),
                       !.trade_history = Append(L.trade_history, TradeRecord(L, price, pnl, step)),
                       !.position = Zero,
                       !.entry_price = 0,
                       !.trades_count = L.trades_count + 1]
    ELSE L

\* a closure that keeps only the latest trade record
ClosePositionOverwrites(L, price, step) ==
    IF L.position # Zero
    THEN LET pnl == ClosePnl(L.position, L.entry_price, price)
         IN  [L EXCEPT !.total_pnl = RAdd(L.total_pnl, pnl),
                       !.balance = RAdd(L.balance, pnl),
                       !.trade_history = <<TradeRecord(L, price, pnl, step)>>,
                       !.position = Zero,
                       !.entry_price = 0]
    ELSE L

ClosePosition(L, price, step) ==
    IF L.position # Zero
    THEN LET pnl == ClosePnl(L.position, L.entry_price, price)
         IN  [L EXCEPT !.total_pnl = RAdd(L.total_pnl, pnl),
                       !.balance = RAdd(L.balance, pnl),
                       !.trade_history = Append(L.trade_history, TradeRecord(L, price, pnl, step)),
                       !.position = Zero,
                       !.entry_price = 0]
    ELSE L

\* ---------------------------------------------------------- _execute_action
\* a cap check that lets a BUY at the cap through
BuyGuardInclusive(L) == ~RLt(max_position_size, L.position)

BuyGuard(L) == RLt(L.position, max_position_size)
SellGuard(L) == RLt(RNeg(max_position_size), L.position)

\* an opening that fills half of the room left under the cap
OpenLongHalf(L, price) ==
    LET new_position == RMin(max_position_size, RSub(max_position_size, L.position))
    IN  [L EXCEPT !.position = RAdd(L.position, RMul(Rat(1, 2), new_position)),
                  !.entry_price = price,
                  !.trades_count = L.trades_count + 1]

OpenLong(L, price) ==
    LET new_position == RMin(max_position_size, RSub(max_position_size, L.position))
    IN  [L EXCEPT !.position = RAdd(L.position, new_position),
                  !.entry_price = price,
                  !.trades_count = L.trades_count + 1]

\* a short opening that is not counted as a trade
OpenShortUncounted(L, price) ==
    LET new_position == RMin(max_position_size, RAdd(max_position_size, L.position))
    IN  [L EXCEPT !.position = RSub(L.position, new_position),
                  !.entry_price = price]

OpenShort(L, price) ==
    LET new_position == RMin(max_position_size, RAdd(max_position_size, L.position))
    IN  [L EXCEPT !.position = RSub(L.position, new_position),
                  !.entry_price = price,
                  !.trades_count = L.trades_count + 1]

\* a BUY that adds a full lot on every call, without the cap check
ExecuteBuyUncapped(L, price, step) ==
    LET C == IF RLt(L.position, Zero) THEN ClosePosition(L, price, step) ELSE L
    IN  [C EXCEPT !.position = RAdd(C.position, max_position_size),
                  !.entry_price = price,
                  !.trades_count = C.trades_count + 1]

\* a BUY that only closes an open short and leaves the account flat
ExecuteBuyClosesOnly(L, price, step) ==
    IF BuyGuard(L)
    THEN IF RLt(L.position, Zero) THEN ClosePosition(L, price, step) ELSE OpenLong(L, price)
    ELSE L

ExecuteBuy(L, price, step) ==
    IF BuyGuard(L)
    THEN OpenLong(IF RLt(L.position, Zero) THEN ClosePosition(L, price, step) ELSE L, price)
    ELSE L

\* a SELL that does not close the open long first
ExecuteSellNoClose(L, price, step) ==
    IF SellGuard(L) THEN OpenShort(L, price) ELSE L

\* a SELL that only closes an open long and leaves the account flat
ExecuteSellClosesOnly(L, price, step) ==
    IF SellGuard(L)
    THEN IF RLt(Zero, L.position) THEN ClosePosition(L, price, step) ELSE OpenShort(L, price)
    ELSE L

ExecuteSell(L, price, step) ==
    IF SellGuard(L)
    THEN OpenShort(IF RLt(Zero, L.position) THEN ClosePosition(L, price, step) ELSE L, price)
    ELSE L

\* an action encoding shifted by one: 0 buys, 1 sells, 2 holds
ExecuteActionShifted(L, price, step, act) ==
    IF act = 2 THEN L
    ELSE IF act = 0 THEN ExecuteBuy(L, price, step)
    ELSE IF act = 1 THEN ExecuteSell(L, price, step)
    ELSE L

\* act is the action after step()'s validity check
ExecuteAction(L, price, step, act) ==
    IF act = HOLD THEN L
    ELSE IF act = BUY THEN ExecuteBuy(L, price, step)
    ELSE IF act = SELL THEN ExecuteSell(L, price, step)
    ELSE L

\* -------------------------------------------------------- _calculate_reward
\* a return taken relative to the next close
PositionRewardOverNext(pos, step) ==
    LET current_price == RInt(Close(step))
        next_price == RInt(Close(step + 1))
        pnl == IF pos.n > 0
               THEN RDiv(RSub(next_price, current_price), next_price)
               ELSE RDiv(RSub(current_price, next_price), next_price)
        gross == RMul(pnl, RAbs(pos))
        commission == RMul(RAbs(pos), commission_rate)
        slippage == RMul(RAbs(pos), slippage_rate)
    IN  RSub(RSub(gross, commission), slippage)

PositionReward(pos, step) ==
    LET current_price == RInt(Close(step))
        next_price == RInt(Close(step + 1))
        pnl == IF pos.n > 0
               THEN RDiv(RSub(next_price, current_price), current_price)
               ELSE RDiv(RSub(current_price, next_price), current_price)
        gross == RMul(pnl, RAbs(pos))
        commission == RMul(RAbs(pos), commission_rate)
        slippage == RMul(RAbs(pos), slippage_rate)
    IN  RSub(RSub(gross, commission), slippage)

\* a reward whose activity penalty is charged at the end of the series too
CalculateRewardPenaltyFirst(pos, step, act) ==
    LET r == IF step >= Len(data) - 1 \/ pos = Zero
             THEN Zero
             ELSE PositionReward(pos, step)
    IN  IF act # HOLD THEN RSub(r, ActivityPenalty) ELSE r

\* a reward that charges commission and slippage only on a BUY or SELL
CalculateRewardCostsOnTrade(pos, step, act) ==
    IF step >= Len(data) - 1
    THEN Zero
    ELSE LET current_price == RInt(Close(step))
             next_price == RInt(Close(step + 1))
             pnl == IF pos.n > 0
                    THEN RDiv(RSub(next_price, current_price), current_price)
                    ELSE RDiv(RSub(current_price, next_price), current_price)
             r == IF pos # Zero THEN RMul(pnl, RAbs(pos)) ELSE Zero
         IN  IF act # HOLD
             THEN RSub(IF pos # Zero THEN PositionReward(pos, step) ELSE Zero, ActivityPenalty)
             ELSE r

\* pos is self.position and step is self.current_step when the reward is computed
CalculateReward(pos, step, act) ==
    IF step >= Len(data) - 1
    THEN Zero
    ELSE LET r == IF pos # Zero THEN PositionReward(pos, step) ELSE Zero
         IN  IF act # HOLD THEN RSub(r, ActivityPenalty) ELSE r

\* --------------------------------------------------------- _get_observation
\* an entry of the observation vector: a number, or the natural logarithm of a
\* positive number (kept symbolic; ln is injective and ln 1 = 0)
Value(r) == [kind |-> "value", v |-> r]
Ln(r) == IF r = RInt(1) THEN Value(Zero) ELSE [kind |-> "ln", v |-> r]

\* the IEEE values numpy returns, with a RuntimeWarning, where the number is
\* undefined
NaN == [kind |-> "nan"]
Inf(sign) == [kind |-> "inf", sign |-> sign]

\* a / b on numpy scalars
Quotient(a, b) ==
    IF b = 0
    THEN (IF a = 0 THEN NaN ELSE Inf(IF a > 0 THEN 1 ELSE -1))
    ELSE Value(IF b > 0 THEN Rat(a, b) ELSE Rat(0 - a, 0 - b))

\* np.log(x) on a numpy scalar
Log(x) ==
    IF x.kind = "nan" THEN NaN
    ELSE IF x.kind = "inf" THEN (IF x.sign > 0 THEN Inf(1) ELSE NaN)
    ELSE IF x.v.n > 0 THEN Ln(x.v)
    ELSE IF x.v.n = 0 THEN Inf(-1)
    ELSE NaN

\* a window row whose first channel is the log return of the open
WindowRowOpenReturn(step, i) ==
    LET k == step - window_size + i + 1
    IN  IF i = 0
        THEN <<Value(RInt(candles[k].open)), Value(RInt(candles[k].high)),
               Value(RInt(candles[k].low)), Value(RInt(data[k])),
               Value(RInt(candles[k].volume))>>
        ELSE LET prev_close == data[k - 1]
                 curr_close == data[k]
             IN  <<Log(Quotient(candles[k].open, prev_close)),
                   Log(Quotient(candles[k].high, prev_close)),
                   Log(Quotient(candles[k].low, prev_close)),
                   Log(Quotient(curr_close, prev_close)),
                   Quotient(candles[k].volume - candles[k - 1].volume,
                            candles[k - 1].volume)>>

\* the features of row i (0-based) of the window that ends before candle step
WindowRow(step, i) ==
    LET k == step - window_size + i + 1
    IN  IF i = 0
        THEN <<Value(RInt(candles[k].open)), Value(RInt(candles[k].high)),
               Value(RInt(candles[k].low)), Value(RInt(data[k])),
               Value(RInt(candles[k].volume))>>
        ELSE LET prev_close == data[k - 1]
                 curr_close == data[k]
             IN  <<Log(Quotient(curr_close, prev_close)),
                   Log(Quotient(candles[k].high, prev_close)),
                   Log(Quotient(candles[k].low, prev_close)),
                   Log(Quotient(curr_close, prev_close)),
                   Quotient(candles[k].volume - candles[k - 1].volume,
                            candles[k - 1].volume)>>

RECURSIVE WindowRows(_, _)
WindowRows(step, i) ==
    IF i >= window_size THEN <<>> ELSE WindowRow(step, i) \o WindowRows(step, i + 1)

\* an observation that leaves the balance out
GetObservationNoBalance(step, pos, bal) == WindowRows(step, 0) \o <<Value(pos)>>

\* step is self.current_step, pos self.position and bal self.balance when the
\* observation is built
GetObservation(step, pos, bal) ==
    WindowRows(step, 0) \o <<Value(pos), Value(RDiv(bal, initial_balance))>>

\* --------------------------------------------------------------------- step
\* no validity check: the action is passed on as it came
CoerceNothing(a) == a

\* the validity check at the top of step()
Coerce(a) == IF ActionSpaceContains(a) THEN a ELSE HOLD

\* the reward computed before the action is executed
RewardPositionBefore(before, after) == before.position

\* the position _calculate_reward reads: step() calls it after _execute_action
RewardPosition(before, after) == after.position

StepInfo(L, step) ==
    [balance |-> L.balance, position |-> L.position, total_pnl |-> L.total_pnl,
     trades_count |-> L.trades_count,
     current_price |-> IF step > 0 THEN Close(step - 1) ELSE 0]

\* the mutable state of the engine as one value
State == [ledger |-> Ledger, current_step |-> current_step, pnl_history |-> pnl_history]

\* a cursor that moves only when the action asks for a trade
NextCursorOnTrade(step, act) == IF act = HOLD THEN step ELSE step + 1

\* self.current_step += 1, whatever the action was
NextCursor(step, act) == step + 1

\* an episode that ends one step later
DoneStrict(cursor) == cursor > max_steps

\* done = self.current_step >= self.max_steps
Done(cursor) == cursor >= max_steps

\* what a step() that completes returns and leaves behind, from engine state S
StepOn(S, a) ==
    LET act == Coerce(a)
        L == ExecuteAction(S.ledger, Close(S.current_step), S.current_step, act)
        cursor == NextCursor(S.current_step, act)
    IN  [ledger |-> L,
         current_step |-> cursor,
         reward |-> CalculateReward(RewardPosition(S.ledger, L), S.current_step, act),
         done |-> Done(cursor),
         truncated |-> FALSE,
         info |-> StepInfo(L, cursor),
         observation |-> GetObservation(cursor, L.position, L.balance),
         pnl_history |-> Append(S.pnl_history, L.total_pnl)]

\* what a step() that completes returns and leaves behind, from the current state
StepResult(a) == StepOn(State, a)

\* the candle indices (0-based) a step() at pre-advance cursor step reads:
\* the fill candle of _execute_action
FillReads(step) == {step}
\* a reward that reads the next candle without the check of the last index
RewardReadsUnguarded(step) == {step, step + 1}

\* the current and the next candle of _calculate_reward, behind its early return
RewardReads(step) == IF step >= Len(data) - 1 THEN {} ELSE {step, step + 1}
\* the rows of the window data.iloc[cursor - window_size : cursor]
ObservationReads(cursor) == (cursor - window_size) .. (cursor - 1)
\* current_price of info, read at the advanced cursor minus one
InfoReads(cursor) == IF cursor > 0 THEN {cursor - 1} ELSE {}
StepReads(step) ==
    FillReads(step) \cup RewardReads(step) \cup ObservationReads(step + 1)
        \cup InfoReads(step + 1)

\* a step() that fails already at the last index
StepCompletesBeforeLast(S) == S.current_step < Len(data) - 1

\* a step() that refuses to run once the cursor has reached max_steps
StepCompletesGuarded(S) == S.current_step < Len(data) /\ S.current_step < max_steps

\* data.iloc[current_step] exists; otherwise _execute_action raises IndexError
\* before anything is changed
StepCompletesOn(S) == S.current_step < Len(data)
StepCompletes == StepCompletesOn(State)

\* what the caller sees of the engine after a step: the ledger, the cursor
\* and the returned done and reward
Outcome == [ledger |-> Ledger, current_step |-> current_step, done |-> done,
            reward |-> reward]

\* no engine was built before this one
NoRun == [phase |-> "off", actions |-> <<>>, outcomes |-> <<>>, at |-> 0]
\* the run of this engine is being written down
Recording == [phase |-> "record", actions |-> <<>>, outcomes |-> <<>>, at |-> 0]

\* the run after a step(a) that left outcome o: written down while the first
\* engine runs, followed one step further while the second repeats it
Logged(run, a, o) ==
    IF run.phase = "record"
    THEN [run EXCEPT !.actions = Append(@, a), !.outcomes = Append(@, o)]
    ELSE IF run.phase = "replay"
         THEN [run EXCEPT !.at = @ + 1]
         ELSE run

\* the run after reset(): a run being written down starts again
LogRestarted(run) == IF run.phase = "record" THEN Recording ELSE run

SetLedger(L) ==
    /\ balance' = L.balance
    /\ position' = L.position
    /\ entry_price' = L.entry_price
    /\ total_pnl' = L.total_pnl
    /\ trades_count' = L.trades_count
    /\ trade_history' = L.trade_history

Step(a) ==
    /\ StepCompletes
    /\ LET res == StepResult(a)
       IN  /\ SetLedger(res.ledger)
           /\ current_step' = res.current_step
           /\ reward' = res.reward
           /\ done' = res.done
           /\ truncated' = res.truncated
           /\ info' = res.info
           /\ observation' = res.observation
           /\ pnl_history' = res.pnl_history
    /\ op' = "step"
    /\ error' = "none"
    /\ action' = a
    /\ floats' = FloatsAfter(floats, trade_history, trade_history')
    /\ earlier' = Logged(earlier, a, Outcome')
    /\ UNCHANGED <<config, statistics, other>>

StepFails(a) ==
    /\ ~StepCompletes
    /\ op' = "step"
    /\ error' = "IndexError"
    /\ action' = a
    /\ UNCHANGED <<config, ledger, current_step, pnl_history, reward, done, info,
                   truncated, observation, statistics, floats, earlier, other>>

\* -------------------------------------------------------------------- reset
\* a reset that forgets entry_price
InitialLedgerKeepsEntry ==
    [balance |-> initial_balance, position |-> Zero, entry_price |-> entry_price,
     total_pnl |-> Zero, trades_count |-> 0, trade_history |-> <<>>]

InitialLedger ==
    [balance |-> initial_balance, position |-> Zero, entry_price |-> 0,
     total_pnl |-> Zero, trades_count |-> 0, trade_history |-> <<>>]

ResetInfo(L) ==
    [balance |-> L.balance, position |-> L.position, total_pnl |-> L.total_pnl,
     trades_count |-> L.trades_count]

\* the window data.iloc[current_step - window_size : current_step] of the first
\* observation has window_size rows; otherwise _get_observation raises IndexError
\* after the state has been reset
ResetCompletes == window_size <= Len(data)

\* a reset that does not clear the PnL history
ResetStateKeepsHistory ==
    /\ SetLedger(InitialLedger)
    /\ current_step' = window_size
    /\ pnl_history' = pnl_history
    /\ op' = "reset"
    /\ action' = NoAction
    /\ floats' = FloatsAtReset(floats.bits)
    /\ earlier' = LogRestarted(earlier)
    /\ UNCHANGED <<config, truncated, statistics, other>>

\* a reset that keeps the realized PnL of the episode before
ResetOnKeepsPnl(S) ==
    [ledger |-> [InitialLedger EXCEPT !.total_pnl = S.ledger.total_pnl],
     current_step |-> window_size,
     pnl_history |-> <<>>]

\* the engine state reset() leaves behind, from engine state S
ResetOn(S) ==
    [ledger |-> InitialLedger, current_step |-> window_size, pnl_history |-> <<>>]

ResetState ==
    /\ LET r == ResetOn(State)
       IN  /\ SetLedger(r.ledger)
           /\ current_step' = r.current_step
           /\ pnl_history' = r.pnl_history
    /\ op' = "reset"
    /\ action' = NoAction
    /\ floats' = FloatsAtReset(floats.bits)
    /\ earlier' = LogRestarted(earlier)
    /\ UNCHANGED <<config, truncated, statistics, other>>

Reset ==
    /\ ResetCompletes
    /\ ResetState
    /\ error' = "none"
    /\ LET r == ResetOn(State)
       IN  /\ info' = ResetInfo(r.ledger)
           /\ observation' = GetObservation(r.current_step, r.ledger.position, r.ledger.balance)
    /\ UNCHANGED <<reward, done>>

ResetFails ==
    /\ ~ResetCompletes
    /\ ResetState
    /\ error' = "IndexError"
    /\ UNCHANGED <<reward, done, info, observation>>

\* ----------------------------------------------------------- get_statistics
\* the dict get_statistics() returns: {} is the record whose field empty is TRUE
EmptyResult == [empty |-> TRUE]

\* np.diff(pnl_history)
Diff(h) == [i \in 1 .. Len(h) - 1 |-> RSub(h[i + 1], h[i])]

\* np.min(pnl_history), for a non-empty history
MinOf(h) == CHOOSE x \in {h[i] : i \in DOMAIN h} : \A i \in DOMAIN h : ~RLt(h[i], x)

\* mean(returns) / (std(returns) + 1e-8) * sqrt(252), kept symbolic: a
\* function of the returns alone
SharpeRatio(returns) == [kind |-> "sharpe", returns |-> returns]

\* a count of the steps, not the trades, that ended with a realized profit
WinningTradesByStep(S) ==
    Cardinality({i \in DOMAIN S.pnl_history : RLt(Zero, S.pnl_history[i])})

\* sum(1 for trade in trade_history if trade['pnl'] > 0)
WinningTrades(S) ==
    Cardinality({i \in DOMAIN S.ledger.trade_history :
                    RLt(Zero, S.ledger.trade_history[i].pnl)})

\* winning_trades / total_trades if total_trades > 0 else 0
WinRate(winning_trades, total_trades) ==
    IF total_trades > 0 THEN Rat(winning_trades, total_trades) ELSE Zero

\* a get_statistics() that reports from the first step on
HasStatisticsFromFirstStep(S) == S.pnl_history # <<>>

\* neither "if not self.pnl_history" nor "if len(returns) == 0" returned {}
HasStatistics(S) == S.pnl_history # <<>> /\ Len(Diff(S.pnl_history)) # 0

\* what get_statistics() returns in engine state S
Statistics(S) ==
    IF ~HasStatistics(S)
    THEN EmptyResult
    ELSE LET winning_trades == WinningTrades(S)
             total_trades == Len(S.ledger.trade_history)
         IN  [empty |-> FALSE,
              total_return |-> RDiv(RSub(S.ledger.balance, initial_balance), initial_balance),
              sharpe_ratio |-> SharpeRatio(Diff(S.pnl_history)),
              max_drawdown |-> RSub(MinOf(S.pnl_history), initial_balance),
              win_rate |-> WinRate(winning_trades, total_trades),
              total_trades |-> total_trades,
              winning_trades |-> winning_trades,
              final_balance |-> S.ledger.balance,
              initial_balance |-> initial_balance]

GetStatistics ==
    /\ op' = "get_statistics"
    /\ error' = "none"
    /\ statistics' = Statistics(State)
    /\ UNCHANGED <<config, ledger, current_step, pnl_history, action, reward, done, info,
                   truncated, observation, floats, earlier, other>>

\* ----------------------------------------------------------------- __init__
\* the fields __init__ derives from its parameters
Constructed ==
    /\ current_step = window_size
    /\ max_steps = Len(data) - window_size - 1
    /\ balance = initial_balance
    /\ position = Zero
    /\ entry_price = 0
    /\ total_pnl = Zero
    /\ trades_count = 0
    /\ trade_history = <<>>
    /\ pnl_history = <<>>
    /\ op = "init"
    /\ error = "none"
    /\ action = NoAction
    /\ reward = Zero
    /\ done = FALSE
    /\ truncated = FALSE
    /\ info = [balance |-> balance]
    /\ observation = <<>>
    /\ statistics = EmptyResult
    /\ other = [state |-> ResetOn(State), op |-> "init", error |-> "none",
                reward |-> Zero, done |-> FALSE]

Init ==
    /\ data \in Series
    /\ candles = PlainCandles(data)
    /\ window_size \in 1 .. MaxWindow
    /\ commission_rate = DefaultCommission
    /\ slippage_rate = DefaultSlippage
    /\ initial_balance = DefaultBalance
    /\ max_position_size \in PositionSizes
    /\ floats = FloatsAtReset(0)
    /\ earlier = NoRun
    /\ Constructed

Next ==
    \/ \E a \in ActionInputs : Step(a)
    \/ \E a \in ActionInputs : StepFails(a)
    \/ Reset
    \/ ResetFails

Spec == Init /\ [][Next]_vars

\* the engine with get_statistics() called between the other calls, stepped
\* with valid actions
NextStats ==
    \/ \E a \in {HOLD, BUY, SELL} : Step(a)
    \/ StepFails(HOLD)
    \/ Reset
    \/ ResetFails
    \/ GetStatistics

SpecStats == Init /\ [][NextStats]_vars

\* ------------------------------------------------------ the evaluation loop
\* a series long enough for an episode of several steps at every window size
LongCloses == [i \in 1 .. (2 * MaxWindow + 3) |-> 1 + (i % 2)]

InitLoop ==
    /\ data \in Series \cup {LongCloses}
    /\ candles = PlainCandles(data)
    /\ window_size \in 1 .. MaxWindow
    /\ commission_rate = DefaultCommission
    /\ slippage_rate = DefaultSlippage
    /\ initial_balance = DefaultBalance
    /\ max_position_size = Rat(1, 10)
    /\ floats = FloatsAtReset(0)
    /\ earlier = NoRun
    /\ Constructed

\* "while not done" has not ended yet, and no call has raised
LoopRunning == error = "none" /\ (op = "reset" \/ (op = "step" /\ ~done))
\* an episode is about to begin: after construction, or after the one before
EpisodeOver == error = "none" /\ (op = "init" \/ (op = "step" /\ done))

\* evaluate_model: for each episode reset(), then step() while not done; an
\* exception ends the evaluation
NextLoop ==
    \/ EpisodeOver /\ Reset
    \/ EpisodeOver /\ ResetFails
    \/ LoopRunning /\ \E a \in ActionInputs : Step(a)
    \/ LoopRunning /\ \E a \in ActionInputs : StepFails(a)

SpecLoop == InitLoop /\ [][NextLoop]_vars

\* ------------------------------------------------- two engines, two rates
\* a commission_rate and a slippage_rate other than the defaults
OtherRates == {<<Zero, Zero>>, <<Rat(1, 1000), Rat(1, 1000)>>}

\* the default account on series of small closes; the first close is in the
\* first window only and no fill or reward reads it, so it is held at 1
InitCosts ==
    /\ data \in {d \in [1 .. (MaxLen + 1) -> 1 .. MaxPrice] : d[1] = 1}
    /\ candles = PlainCandles(data)
    /\ window_size = 1
    /\ commission_rate = DefaultCommission
    /\ slippage_rate = DefaultSlippage
    /\ initial_balance = DefaultBalance
    /\ max_position_size = Rat(1, 10)
    /\ floats = FloatsAtReset(0)
    /\ earlier = Recording
    /\ Constructed

\* TradingEnvironment(data, ..., commission_rate = c, slippage_rate = s): a
\* second engine built on the same series once the first has run
Construct(c, s) ==
    /\ earlier.phase = "record"
    /\ earlier.actions # <<>>
    /\ commission_rate' = c
    /\ slippage_rate' = s
    /\ UNCHANGED <<data, candles, window_size, initial_balance, max_position_size>>
    /\ max_steps' = Len(data) - window_size - 1
    /\ SetLedger(InitialLedger)
    /\ current_step' = window_size
    /\ pnl_history' = <<>>
    /\ op' = "init"
    /\ error' = "none"
    /\ action' = NoAction
    /\ reward' = Zero
    /\ done' = FALSE
    /\ truncated' = FALSE
    /\ info' = [balance |-> initial_balance]
    /\ observation' = <<>>
    /\ statistics' = EmptyResult
    /\ other' = [state |-> ResetOn(State), op |-> "init", error |-> "none",
                 reward |-> Zero, done |-> FALSE]
    /\ floats' = FloatsAtReset(0)
    /\ earlier' = [earlier EXCEPT !.phase = "replay"]

\* the first engine is run with any actions; then the second is built with
\* other rates and stepped with the same actions
NextCosts ==
    \/ earlier.phase = "record" /\ \E a \in {HOLD, BUY, SELL} : Step(a)
    \/ earlier.phase = "record" /\ Reset
    \/ \E r \in OtherRates : Construct(r[1], r[2])
    \/ /\ earlier.phase = "replay"
       /\ earlier.at < Len(earlier.actions)
       /\ Step(earlier.actions[earlier.at + 1])

SpecCosts == InitCosts /\ [][NextCosts]_vars

\* ------------------------------------------------------ rounded arithmetic
\* the default account trading whole units on series of small integer closes,
\* with the float accumulators tracked at MantissaBits significand bits
InitFloat ==
    /\ data \in [1 .. (MaxLen + 1) -> 1 .. MaxPrice]
    /\ candles = PlainCandles(data)
    /\ window_size = 1
    /\ commission_rate = DefaultCommission
    /\ slippage_rate = DefaultSlippage
    /\ initial_balance = DefaultBalance
    /\ max_position_size = RInt(1)
    /\ floats = FloatsAtReset(MantissaBits)
    /\ earlier = NoRun
    /\ Constructed

NextFloat ==
    \/ \E a \in {HOLD, BUY, SELL} : Step(a)
    \/ StepFails(HOLD)
    \/ Reset

SpecFloat == InitFloat /\ [][NextFloat]_vars

\* ------------------------------------------------------------ two instances
\* instances whose histories are one list object shared by both
BystanderSharesHistories(mine, theirs) ==
    [mine EXCEPT !.pnl_history = theirs.pnl_history,
                 !.ledger.trade_history = theirs.ledger.trade_history]

\* the fields of an instance after a call on the other instance, whose fields
\* are then theirs: every field is an attribute __init__ and reset() create
\* for self alone, so none is reached through the other self
Bystander(mine, theirs) == mine

\* a call on the other instance leaves this one where Bystander says
SetBystander(theirs) ==
    LET mine == Bystander(State, theirs)
    IN  /\ SetLedger(mine.ledger)
        /\ current_step' = mine.current_step
        /\ pnl_history' = mine.pnl_history
        /\ UNCHANGED <<config, op, error, action, reward, done, info, truncated,
                       observation, statistics, floats, earlier>>

\* step(a) on the other instance
StepOther(a) ==
    /\ IF StepCompletesOn(other.state)
       THEN LET res == StepOn(other.state, a)
            IN  other' = [state |-> [ledger |-> res.ledger,
                                     current_step |-> res.current_step,
                                     pnl_history |-> res.pnl_history],
                          op |-> "step", error |-> "none",
                          reward |-> res.reward, done |-> res.done]
       ELSE other' = [other EXCEPT !.op = "step", !.error = "IndexError"]
    /\ SetBystander(other'.state)

\* reset() on the other instance
ResetOther ==
    /\ other' = [other EXCEPT !.state = ResetOn(other.state),
                              !.op = "reset",
                              !.error = IF ResetCompletes THEN "none" ELSE "IndexError"]
    /\ SetBystander(other'.state)

\* the scenario series, and the one-candle series no window fits into
PairSeries == {ScenarioCloses} \cup [1 .. 1 -> 1 .. MaxPrice]

InitPair ==
    /\ data \in PairSeries
    /\ candles = PlainCandles(data)
    /\ window_size \in 1 .. MaxWindow
    /\ commission_rate = DefaultCommission
    /\ slippage_rate = DefaultSlippage
    /\ initial_balance = DefaultBalance
    /\ max_position_size = Rat(1, 10)
    /\ floats = FloatsAtReset(0)
    /\ earlier = NoRun
    /\ Constructed

\* calls on the two instances, interleaved in any order
NextPair ==
    \/ \E a \in {HOLD, BUY, SELL} : Step(a)
    \/ StepFails(HOLD)
    \/ Reset
    \/ ResetFails
    \/ \E a \in {HOLD, BUY, SELL} : StepOther(a)
    \/ ResetOther

SpecPair == InitPair /\ [][NextPair]_vars

\* an episode in which every action is HOLD
NextHold ==
    \/ Step(HOLD)
    \/ StepFails(HOLD)
    \/ Reset
    \/ ResetFails

SpecHold == Init /\ [][NextHold]_vars

\* a series with closes that are zero or negative as well as positive, and the
\* candles over it: plain, or with one volume that is zero or negative
SeriesUnchecked == UNION {[1 .. n -> {-1, 0, 1}] : n \in 1 .. MaxLen}

CandlesUnchecked(d) ==
    {PlainCandles(d)} \cup
    {[PlainCandles(d) EXCEPT ![k].volume = v] : k \in 1 .. Len(d), v \in {-1, 0}}

InitData ==
    /\ data \in SeriesUnchecked
    /\ candles \in CandlesUnchecked(data)
    /\ window_size \in 1 .. MaxWindow
    /\ commission_rate = DefaultCommission
    /\ slippage_rate = DefaultSlippage
    /\ initial_balance = DefaultBalance
    /\ max_position_size = Rat(1, 10)
    /\ floats = FloatsAtReset(0)
    /\ earlier = NoRun
    /\ Constructed

\* the engine on unchecked data, reset and stepped with HOLD
SpecData == InitData /\ [][NextHold]_vars

\* constructor arguments as __init__ takes them: it stores whatever it is given.
\* Each entry is <<commission_rate, slippage_rate, initial_balance,
\* max_position_size>>; the first is a configuration the documentation allows,
\* each of the others has one argument outside the documented range
UncheckedArguments ==
    {<<DefaultCommission, DefaultSlippage, DefaultBalance, Rat(1, 10)>>,
     <<RNeg(DefaultCommission), DefaultSlippage, DefaultBalance, Rat(1, 10)>>,
     <<DefaultCommission, RNeg(DefaultSlippage), DefaultBalance, Rat(1, 10)>>,
     <<DefaultCommission, DefaultSlippage, RNeg(DefaultBalance), Rat(1, 10)>>,
     <<DefaultCommission, DefaultSlippage, DefaultBalance, Zero>>,
     <<DefaultCommission, DefaultSlippage, DefaultBalance, Rat(-1, 10)>>,
     <<DefaultCommission, DefaultSlippage, DefaultBalance, RInt(2)>>}

InitUnchecked ==
    /\ data \in SmallSeries
    /\ candles = PlainCandles(data)
    /\ window_size \in 0 .. MaxWindow
    /\ \E args \in UncheckedArguments :
          /\ commission_rate = args[1]
          /\ slippage_rate = args[2]
          /\ initial_balance = args[3]
          /\ max_position_size = args[4]
    /\ floats = FloatsAtReset(0)
    /\ earlier = NoRun
    /\ Constructed

SpecConfig == InitUnchecked /\ [][Next]_vars

\* a candle around the close c whose open and high lie above the close, whose
\* low lies below it where the price allows, and whose volume is doubled
WideCandle(c) ==
    [open |-> c + 1, high |-> c + 1, low |-> IF c > 1 THEN c - 1 ELSE c, volume |-> 2]

\* the candle series over the closes d: all candles plain, or one of them wide
CandleSeries(d) ==
    {PlainCandles(d)} \cup
    {[PlainCandles(d) EXCEPT ![k] = WideCandle(d[k])] : k \in 1 .. Len(d)}

InitObs ==
    /\ data \in Series
    /\ candles \in CandleSeries(data)
    /\ window_size \in 1 .. MaxWindow
    /\ commission_rate = DefaultCommission
    /\ slippage_rate = DefaultSlippage
    /\ initial_balance = DefaultBalance
    /\ max_position_size = Rat(1, 10)
    /\ floats = FloatsAtReset(0)
    /\ earlier = NoRun
    /\ Constructed

SpecObs == InitObs /\ [][Next]_vars

\* ------------------------------------------------------------------ claims
\* a transition that is a step() call that returned
StepTaken == op' = "step" /\ error' = "none" /\ current_step' = current_step + 1
\* the action that step applied: the requested one, or HOLD for an invalid one
Applied == IF action' \in {HOLD, BUY, SELL} THEN action' ELSE HOLD
\* the close the step filled at, and the next one
FillClose == data[current_step + 1]
NextClose == data[current_step + 2]

\* C1: in every state reachable from construction or reset() by any sequence of
\* step() calls with any actions, valid or not, |position| <= max_position_size.
C1_PositionBound ==
    /\ position.n * max_position_size.d <= max_position_size.n * position.d
    /\ -(position.n * max_position_size.d) <= max_position_size.n * position.d

\* a BUY issued at the cap: the position is at +max_position_size and the entry
\* price is not the close this BUY would have filled at
C1_Witness ==
    /\ op = "step" /\ error = "none" /\ action = BUY
    /\ position = max_position_size
    /\ entry_price # data[current_step]

\* C2: in every reachable state, position = 0 implies entry_price = 0.
C2_EntryPriceInvariant == (position.n = 0) => (entry_price = 0)

\* a reset() after a step that was rewarded for an open position
C2_Witness ==
    /\ op = "reset" /\ error = "none" /\ reward # Zero
    /\ position.n = 0 /\ entry_price = 0

\* C3: a step() changes balance only when its action closes an open position
\* (BUY while short, SELL while long), and then by exactly the realized PnL of
\* that closure, (exit - entry) / entry * |position| for a long and
\* (entry - exit) / entry * |position| for a short; every other step (HOLD, a
\* no-op at the cap, an opening from flat) leaves balance unchanged.
C3_RealizedPnl ==
    IF position.n > 0
    THEN Rat((FillClose - entry_price) * position.n, entry_price * position.d)
    ELSE Rat((entry_price - FillClose) * (-position.n), entry_price * position.d)

C3_BalanceOnlyOnClosure ==
    [][StepTaken =>
         IF (Applied = BUY /\ position.n < 0) \/ (Applied = SELL /\ position.n > 0)
         THEN balance' = RAdd(balance, C3_RealizedPnl)
         ELSE balance' = balance]_vars

\* a SELL has closed a long at a profit or loss, and a later HOLD step has left
\* the balance where the closure put it
C3_Witness ==
    /\ op = "step" /\ error = "none" /\ action = HOLD
    /\ balance # initial_balance
    /\ Len(trade_history) = 1 /\ trade_history[1].position.n > 0

\* the relative move of the close from the fill candle to the next one
Move == Rat(NextClose - FillClose, FillClose)
\* commission and slippage charged on a position of size p >= 0
Costs(p) == RAdd(RMul(p, commission_rate), RMul(p, slippage_rate))
\* the step is rewarded against the next candle (the cursor is below the last index)
Rewarded == current_step < Len(data) - 1
\* the closure a step makes at the fill close was of a short / of a long
ShortPnl == Rat((entry_price - FillClose) * (-position.n), entry_price * position.d)
LongPnl == Rat((FillClose - entry_price) * position.n, entry_price * position.d)
ClosureRecord(pnl) ==
    [entry_price |-> entry_price, exit_price |-> FillClose, position |-> position,
     pnl |-> pnl, step |-> current_step]
LastTrade == trade_history[Len(trade_history)]

\* C4: step applies the action to the ledger before it computes the reward: the
\* reward of a step is computed from the position the action leaves, not from
\* the position before it.  A BUY is rewarded as a long position of
\* max_position_size on that same step, from flat and from short alike, and a
\* SELL as a short one.
C4_RewardAfterAction ==
    [][(StepTaken /\ Rewarded) =>
         /\ reward' = RSub(RSub(RMul(Move, position'), Costs(RAbs(position'))),
                           IF Applied = HOLD THEN Zero ELSE ActivityPenalty)
         /\ Applied = BUY =>
              reward' = RSub(RSub(RMul(Move, max_position_size), Costs(max_position_size)),
                             ActivityPenalty)
         /\ Applied = SELL =>
              reward' = RSub(RSub(RMul(RNeg(Move), max_position_size), Costs(max_position_size)),
                             ActivityPenalty)]_vars

\* a BUY has flipped a short on a step that is rewarded against a moving close
C4_Witness ==
    /\ op = "step" /\ error = "none" /\ action = BUY
    /\ current_step < Len(data)
    /\ data[current_step + 1] # data[current_step]
    /\ Len(trade_history) > 0
    /\ LastTrade.step = current_step - 1 /\ LastTrade.position.n < 0
    /\ position = max_position_size

\* C5: for a step whose pre-advance cursor c is below len(series) - 1 and whose
\* post-action position p is non-zero, reward = sign(p) * (close[c+1] - close[c])
\* / close[c] * |p| - |p| * commission_rate - |p| * slippage_rate, minus 0.0001
\* when the coerced action is not HOLD.  In the scenario (closes 100, 101, 99,
\* 102, window_size 2, max_position_size 0.1, commission 0.0004, slippage
\* 0.0001) reset() puts the cursor at index 2 and step(BUY) yields position 0.1,
\* entry_price 99 and reward (102-99)/99*0.1 - 0.00004 - 0.00001 - 0.0001.
Scenario ==
    /\ data = ScenarioCloses /\ window_size = 2 /\ max_position_size = Rat(1, 10)
    /\ commission_rate = Rat(4, 10000) /\ slippage_rate = Rat(1, 10000)
ScenarioReward ==
    RSub(RSub(RSub(RMul(Rat(102 - 99, 99), Rat(1, 10)), Rat(4, 100000)), Rat(1, 100000)),
         Rat(1, 10000))

C5_RewardFormula ==
    [][/\ (StepTaken /\ Rewarded /\ position'.n # 0) =>
            LET sign == IF position'.n > 0 THEN 1 ELSE -1
                size == RAbs(position')
                gross == RMul(Rat(sign * (NextClose - FillClose), FillClose), size)
                net == RSub(RSub(gross, RMul(size, commission_rate)), RMul(size, slippage_rate))
            IN  reward' = IF Applied # HOLD THEN RSub(net, Rat(1, 10000)) ELSE net
       /\ (Scenario /\ op' = "reset") => current_step' = 2
       /\ (Scenario /\ op = "reset" /\ StepTaken /\ action' = BUY) =>
            /\ current_step = 2
            /\ position' = Rat(1, 10)
            /\ entry_price' = 99
            /\ reward' = ScenarioReward]_vars

\* the scenario's step(BUY) right after reset()
C5_Witness ==
    /\ Scenario /\ op = "step" /\ error = "none" /\ action = BUY
    /\ current_step = 3 /\ Len(pnl_history) = 1
    /\ position = Rat(1, 10) /\ entry_price = 99
    /\ reward = Rat(1901, 660000)

\* C6: a BUY at position = +max_position_size changes nothing in the ledger.
\* Otherwise, if position < 0 the short is first closed at the current close
\* (PnL realized in balance and total_pnl, one trade record appended); then
\* position is exactly +max_position_size, entry_price is the close at the
\* pre-advance cursor and trades_count has grown by exactly 1.
C6_BuyContract ==
    [][(StepTaken /\ Applied = BUY) =>
         IF position = max_position_size
         THEN UNCHANGED ledger
         ELSE /\ position' = max_position_size
              /\ entry_price' = FillClose
              /\ trades_count' = trades_count + 1
              /\ IF position.n < 0
                 THEN /\ balance' = RAdd(balance, ShortPnl)
                      /\ total_pnl' = RAdd(total_pnl, ShortPnl)
                      /\ trade_history' = Append(trade_history, ClosureRecord(ShortPnl))
                 ELSE UNCHANGED <<balance, total_pnl, trade_history>>]_vars

\* a BUY has closed a short and opened the long
C6_Witness ==
    /\ op = "step" /\ error = "none" /\ action = BUY
    /\ Len(trade_history) > 0
    /\ LastTrade.step = current_step - 1 /\ LastTrade.position.n < 0
    /\ LastTrade.pnl # Zero
    /\ position = max_position_size /\ entry_price = data[current_step]

\* C7: SELL is the mirror image of BUY: for every reachable ledger state and
\* the current close, SELL gives the state obtained by negating position, applying
\* BUY at the same close and negating position again, with the same
\* entry_price, trades_count and number of trade records, and a realized PnL of
\* the same formula with long and short exchanged.
Mirror(L) == [L EXCEPT !.position = RNeg(L.position)]
\* the close at the cursor, where the series has one
CloseValues == IF current_step < Len(data) THEN {data[current_step + 1]} ELSE {}

C7_SellMirrorsBuy ==
    \A x \in CloseValues :
        LET S == ExecuteAction(Ledger, x, current_step, SELL)
            B == ExecuteAction(Mirror(Ledger), x, current_step, BUY)
            closes == position.n > 0
            longPnl == Rat((x - entry_price) * position.n, entry_price * position.d)
        IN  /\ S.position = RNeg(B.position)
            /\ S.entry_price = B.entry_price
            /\ S.trades_count = B.trades_count
            /\ Len(S.trade_history) = Len(B.trade_history)
            /\ Len(S.trade_history) = Len(trade_history) + (IF closes THEN 1 ELSE 0)
            /\ closes =>
                 /\ S.trade_history[Len(S.trade_history)].pnl = longPnl
                 /\ B.trade_history[Len(B.trade_history)].pnl =
                      Rat((entry_price - x) * position.n, entry_price * position.d)
                 /\ S.balance = RAdd(balance, longPnl)
                 /\ B.balance = RSub(balance, longPnl)
            /\ ~closes => (S.balance = balance /\ B.balance = balance)

\* a SELL has closed a long and opened the short
C7_Witness ==
    /\ op = "step" /\ error = "none" /\ action = SELL
    /\ Len(trade_history) > 0
    /\ LastTrade.step = current_step - 1 /\ LastTrade.position.n > 0
    /\ position = RNeg(max_position_size) /\ entry_price = data[current_step]

\* C8: closing a non-zero position at price x realizes pnl = (x - entry_price) /
\* entry_price * |position| for a long and (entry_price - x) / entry_price *
\* |position| for a short; adds that pnl to both balance and total_pnl; appends
\* one trade record holding the pre-closure entry_price, x, the signed
\* pre-closure position, pnl and the current cursor; then sets position and
\* entry_price to 0.  Closing when position = 0 changes nothing.  Every record
\* of the trade history carries the pnl of that formula.
PnlOf(pos, entry, x) ==
    IF pos.n > 0
    THEN Rat((x - entry) * pos.n, entry * pos.d)
    ELSE Rat((entry - x) * (-pos.n), entry * pos.d)

C8_CloseContract ==
    /\ \A x \in CloseValues :
          LET C == ClosePosition(Ledger, x, current_step)
          IN  IF position.n # 0
              THEN LET pnl == PnlOf(position, entry_price, x)
                   IN  /\ C.balance = RAdd(balance, pnl)
                       /\ C.total_pnl = RAdd(total_pnl, pnl)
                       /\ C.trade_history =
                            Append(trade_history,
                                   [entry_price |-> entry_price, exit_price |-> x,
                                    position |-> position, pnl |-> pnl,
                                    step |-> current_step])
                       /\ C.position = Zero
                       /\ C.entry_price = 0
                       /\ C.trades_count = trades_count
              ELSE C = Ledger
    /\ \A i \in 1 .. Len(trade_history) :
          LET t == trade_history[i]
          IN  /\ t.position.n # 0
              /\ t.exit_price = data[t.step + 1]
              /\ t.pnl = PnlOf(t.position, t.entry_price, t.exit_price)

\* a long and then a short have been closed, each at a profit or loss
C8_Witness ==
    /\ Len(trade_history) = 2
    /\ trade_history[1].position.n > 0 /\ trade_history[1].pnl # Zero
    /\ trade_history[2].position.n < 0 /\ trade_history[2].pnl # Zero
    /\ position.n # 0

\* C9: a step raises trades_count by exactly 1 when its action is BUY with
\* position < +max_position_size or SELL with position > -max_position_size (a
\* flip counts once), and leaves it unchanged for HOLD, for an invalid action
\* and for BUY / SELL already at the cap on that side.
C9_Opens ==
    \/ action' = BUY /\ RLt(position, max_position_size)
    \/ action' = SELL /\ RLt(RNeg(max_position_size), position)

C9_TradeCount ==
    [][StepTaken =>
         trades_count' = IF C9_Opens THEN trades_count + 1 ELSE trades_count]_vars

\* a flip (one closure, two openings), then a SELL at the cap
C9_Witness ==
    /\ op = "step" /\ error = "none" /\ action = SELL
    /\ trades_count = 2 /\ Len(trade_history) = 1
    /\ LastTrade.step = current_step - 2
    /\ position = RNeg(max_position_size)

\* C10 as stated: for any action value outside {0, 1, 2}, step(action) does not
\* fail and produces exactly the next state, reward, done flag and info of
\* step(HOLD) from the same state.
InvalidStep == op' = "step" /\ action' \notin {0, 1, 2}
SameAsHold ==
    LET h == StepResult(HOLD)
    IN  /\ Ledger' = h.ledger
        /\ current_step' = h.current_step
        /\ pnl_history' = h.pnl_history
        /\ reward' = h.reward
        /\ done' = h.done
        /\ info' = h.info

C11_HoldEpisode ==
    /\ balance = initial_balance
    /\ trades_count = 0
    /\ position = Zero
    /\ trade_history = <<>>

\* two HOLD steps over a close that moved
C11_Witness ==
    /\ op = "step" /\ error = "none" /\ action = HOLD
    /\ Len(pnl_history) >= 2
    /\ data[current_step] # data[current_step - 1]
    /\ balance = initial_balance /\ trades_count = 0

\* C12: reset() after any sequence of step() calls, also after done, restores
\* the initial state: balance = initial_balance, position = 0, entry_price = 0,
\* total_pnl = 0, trades_count = 0, empty trade history, empty PnL history,
\* cursor = window_size; and the info it returns carries exactly balance,
\* position, total_pnl and trades_count with those values.
C12_ResetRestores ==
    [][op' = "reset" =>
         /\ balance' = initial_balance
         /\ position' = Zero
         /\ entry_price' = 0
         /\ total_pnl' = Zero
         /\ trades_count' = 0
         /\ trade_history' = <<>>
         /\ pnl_history' = <<>>
         /\ current_step' = window_size
         /\ error' = "none" =>
              info' = [balance |-> initial_balance, position |-> Zero,
                       total_pnl |-> Zero, trades_count |-> 0]]_vars

\* a reset() after a step that returned done with an open position
C12_Witness ==
    /\ op = "reset" /\ error = "none"
    /\ done = TRUE /\ reward # Zero
    /\ pnl_history = <<>> /\ trade_history = <<>>
    /\ balance = initial_balance /\ current_step = window_size


\* C13: for a fixed candle series and a fixed action sequence, reset() followed
\* by the sequence, then reset() again followed by the same sequence on the
\* same instance, yields identical reward, done and info sequences, whatever
\* was done on the instance before the first reset.
\* what the calls step(seq[1]), step(seq[2]), ... return, from engine state S
RECURSIVE Run(_, _)
Run(S, seq) ==
    IF seq = <<>> THEN <<>>
    ELSE IF StepCompletesOn(S)
         THEN LET r == StepOn(S, Head(seq))
              IN  <<[reward |-> r.reward, done |-> r.done, info |-> r.info]>>
                  \o Run([ledger |-> r.ledger, current_step |-> r.current_step,
                          pnl_history |-> r.pnl_history], Tail(seq))
         ELSE <<[raised |-> "IndexError"]>> \o Run(S, Tail(seq))

\* the engine state those calls leave behind
RECURSIVE After(_, _)
After(S, seq) ==
    IF seq = <<>> THEN S
    ELSE IF StepCompletesOn(S)
         THEN LET r == StepOn(S, Head(seq))
              IN  After([ledger |-> r.ledger, current_step |-> r.current_step,
                         pnl_history |-> r.pnl_history], Tail(seq))
         ELSE After(S, Tail(seq))

\* the action sequences that run an episode to the end of the series and one
\* call beyond it
ReplaySeqs == [1 .. (Len(data) - window_size + 1) -> {HOLD, BUY, SELL}]

StepCalled == op' = "step"
StepReturns == op' = "step" /\ error' = "none"
StepRaises == op' = "step" /\ error' = "IndexError"

\* C14 as stated: the cursor starts at window_size after reset, increases by
\* exactly 1 on every step() call whatever the action, never decreases within
\* an episode, and is set back only by reset().
C14_CursorEveryCall ==
    [][/\ (op' = "reset" => current_step' = window_size)
       /\ (StepCalled => current_step' = current_step + 1)
       /\ (current_step' < current_step => op' = "reset")]_vars

\* C14: the cursor is window_size after reset(); every step() call that
\* returns increases it by exactly 1 whatever the action (HOLD, a BUY or SELL
\* at the cap, an invalid action); a step() call that raises IndexError leaves
\* it unchanged; it never decreases within an episode and only reset() sets it
\* back.
C14_Cursor ==
    [][/\ (op' = "reset" => current_step' = window_size)
       /\ (StepReturns => /\ current_step < Len(data)
                          /\ current_step' = current_step + 1)
       /\ (StepRaises => /\ current_step >= Len(data)
                         /\ current_step' = current_step)
       /\ (current_step' < current_step => op' = "reset")]_vars

\* a second BUY, at the cap, has moved the cursor like the first
C14_Witness ==
    /\ op = "step" /\ error = "none" /\ action = BUY
    /\ position = max_position_size /\ trades_count = 1
    /\ Len(pnl_history) = 2
    /\ current_step = window_size + 2

\* C15: for every series and window for which reset() succeeds, in an episode
\* where the caller stops stepping once done is returned, the cursor never
\* exceeds len(series) - window_size - 1.
\* the state follows construction, a completed reset(), or a completed step()
\* that was called before any step of the episode had returned done
C15_InEpisode ==
    \/ op = "init"
    \/ op = "reset" /\ error = "none"
    \/ /\ op = "step" /\ error = "none"
       /\ \/ current_step - 1 = window_size
          \/ current_step - 1 < max_steps

C15_CursorBound ==
    (ResetCompletes /\ C15_InEpisode) =>
        current_step <= Len(data) - window_size - 1

\* C16 as stated: a step() called with the pre-advance cursor at or beyond the
\* last index of the series returns the reward 0, for every action and position.
C16_ZeroAtOrBeyond ==
    [][(StepCalled /\ current_step >= Len(data) - 1) =>
           (error' = "none" /\ reward' = Zero)]_vars

\* C16: a step() called with the pre-advance cursor at the last index of the
\* series returns the reward 0 for every action and every position (no
\* activity penalty, commission or slippage); called with the cursor beyond the
\* last index it raises IndexError and returns no reward.
C16_BoundaryReward ==
    [][(StepCalled /\ current_step >= Len(data) - 1) =>
           IF current_step = Len(data) - 1
           THEN error' = "none" /\ reward' = Zero
           ELSE error' = "IndexError" /\ reward' = reward]_vars

\* a SELL at the last index flipped a long position and was rewarded 0
C16_Witness ==
    /\ op = "step" /\ error = "none" /\ action = SELL
    /\ current_step = Len(data)
    /\ position = RNeg(max_position_size)
    /\ Len(trade_history) >= 1
    /\ LastTrade.step = current_step - 1
    /\ reward = Zero

\* C17: step() has no terminal guard: after a step has returned done = true, a
\* further step() call is not rejected on that account (it completes exactly
\* when the cursor is below len(series)); it applies the action to the ledger,
\* advances the cursor by 1, appends to the PnL history and returns done = true
\* again, so done is returned by every later step of the episode that completes.
DoneReturned == op = "step" /\ done = TRUE

ValidConfig ==
    /\ window_size > 0
    /\ RLt(Zero, initial_balance)
    /\ RLt(Zero, max_position_size) /\ ~RLt(RInt(1), max_position_size)
    /\ ~RLt(commission_rate, Zero)
    /\ ~RLt(slippage_rate, Zero)

C18_ConfigFailsFast ==
    (op \in {"init", "reset", "step"} /\ error = "none") => ValidConfig


\* an observation has just been returned by reset() or step()
Observed == op \in {"reset", "step"} /\ error = "none"

\* C19: the observation returned by reset() and by every step() has length
\* exactly 5 * window_size + 2, regardless of the action history; its last two
\* entries are the current signed position and balance / initial_balance
\* (position 0 and balance ratio 1 at episode start).
C19_ObservationShape ==
    Observed =>
        LET n == Len(observation)
        IN  /\ n = 5 * window_size + 2
            /\ observation[n - 1] = Value(position)
            /\ observation[n] = Value(RDiv(balance, initial_balance))
            /\ op = "reset" => /\ observation[n - 1] = Value(Zero)
                               /\ observation[n] = Value(RInt(1))

\* after a closure with a loss or a gain the observation carries the new
\* position and a balance ratio other than 1
C19_Witness ==
    /\ op = "step" /\ error = "none" /\ action = SELL
    /\ window_size = MaxWindow
    /\ position = RNeg(max_position_size)
    /\ balance # initial_balance
    /\ Len(observation) = 5 * window_size + 2
    /\ observation[Len(observation)] # Value(RInt(1))

\* the five entries of window row i (0-based) in the observation, and the
\* 1-based index in the series of the candle they describe
ObservedRow(i) == SubSeq(observation, 5 * i + 1, 5 * i + 5)
RowCandle(i) == current_step - window_size + i + 1
CloseReturn(i) == Ln(Rat(data[RowCandle(i)], data[RowCandle(i) - 1]))

\* C20 as stated: for every non-oldest candle i of the window the four price
\* channels (open, high, low, close) all carry the close-to-close log return
\* ln(close_i / close_{i-1}).
C20_AllChannelsCloseReturn ==
    Observed =>
        \A i \in 1 .. window_size - 1 :
            \A ch \in 1 .. 4 : ObservedRow(i)[ch] = CloseReturn(i)

\* C20: for every non-oldest candle i of the window the open and close
\* channels carry the close-to-close log return ln(close_i / close_{i-1}), the
\* high channel carries ln(high_i / close_{i-1}) and the low channel
\* ln(low_i / close_{i-1}); the open of the candle is not used.
C20_PriceChannels ==
    Observed =>
        \A i \in 1 .. window_size - 1 :
            LET k == RowCandle(i)
            IN  /\ ObservedRow(i)[1] = CloseReturn(i)
                /\ ObservedRow(i)[2] = Ln(Rat(candles[k].high, data[k - 1]))
                /\ ObservedRow(i)[3] = Ln(Rat(candles[k].low, data[k - 1]))
                /\ ObservedRow(i)[4] = CloseReturn(i)

\* the newest candle of the window is wide: its open, high and low all differ
\* from its close, and the high and low channels differ from the return
C20_Witness ==
    /\ op = "step" /\ error = "none"
    /\ window_size = MaxWindow
    /\ LET i == window_size - 1
           k == RowCandle(i)
       IN  /\ candles[k].open # data[k]
           /\ candles[k].high # data[k]
           /\ candles[k].low # data[k]
           /\ ObservedRow(i)[2] # CloseReturn(i)
           /\ ObservedRow(i)[3] # CloseReturn(i)
           /\ ObservedRow(i)[1] = CloseReturn(i)


\* C21: a trade record is appended exactly once per full position closure and
\* never otherwise: a step that returns appends one record exactly when its
\* action flips an open position (BUY while short, SELL while long), the record
\* describes the position that was closed, and every record already in the
\* trade history stays unmodified and in place until reset(); a step that
\* raises appends nothing.
Flips ==
    \/ Applied = BUY /\ RLt(position, Zero)
    \/ Applied = SELL /\ RLt(Zero, position)

C21_TradeRecords ==
    [][/\ StepReturns =>
            IF Flips
            THEN /\ Len(trade_history') = Len(trade_history) + 1
                 /\ SubSeq(trade_history', 1, Len(trade_history)) = trade_history
                 /\ trade_history'[Len(trade_history')].position = position
                 /\ trade_history'[Len(trade_history')].entry_price = entry_price
                 /\ trade_history'[Len(trade_history')].exit_price = FillClose
                 /\ trade_history'[Len(trade_history')].step = current_step
                 /\ position' = RNeg(position)
            ELSE trade_history' = trade_history
       /\ StepRaises => trade_history' = trade_history
       /\ (trade_history # <<>> /\ trade_history' = <<>>) => op' = "reset"]_vars

\* a second closure of the episode has been recorded behind the first
C21_Witness ==
    /\ op = "step" /\ error = "none" /\ action = BUY
    /\ Len(trade_history) = 2
    /\ trade_history[1].step = current_step - 2
    /\ trade_history[2].step = current_step - 1
    /\ trade_history[1].position = max_position_size
    /\ trade_history[2].position = RNeg(max_position_size)


\* get_statistics() has just returned a non-empty result
Reported == op = "get_statistics" /\ ~statistics.empty

\* C22: whenever get_statistics() returns a non-empty result,
\* winning_trades <= total_trades, hence 0 <= win_rate <= 1, and win_rate is
\* the number 0 when the trade history is empty.
C22_WinRateBound ==
    Reported =>
        /\ statistics.total_trades = Len(trade_history)
        /\ statistics.winning_trades \in 0 .. statistics.total_trades
        /\ ~RLt(statistics.win_rate, Zero)
        /\ ~RLt(RInt(1), statistics.win_rate)
        /\ statistics.total_trades > 0 =>
               statistics.win_rate =
                   Rat(statistics.winning_trades, statistics.total_trades)
        /\ trade_history = <<>> => statistics.win_rate = Zero

\* two closures, both with a profit, are reported as a win rate of 1
C22_Witness ==
    /\ Reported
    /\ Len(trade_history) = 2
    /\ statistics.total_trades = 2
    /\ statistics.winning_trades = 2
    /\ statistics.win_rate = RInt(1)


\* C23: get_statistics() returns the empty result exactly when fewer than two
\* steps have completed since the last reset (PnL history of length 0 or 1),
\* and otherwise a result carrying total_return =
\* (balance - initial_balance) / initial_balance and the other metrics;
\* get_statistics() never changes the engine state.
StatisticsCalled == op' = "get_statistics"

C23_Statistics ==
    [][StatisticsCalled =>
           /\ error' = "none"
           /\ statistics'.empty <=> Len(pnl_history) < 2
           /\ Len(pnl_history) = current_step - window_size
           /\ ~statistics'.empty =>
                /\ statistics'.total_return =
                       Rat(balance.n - initial_balance.n * balance.d,
                           balance.d * initial_balance.n)
                /\ statistics'.final_balance = balance
                /\ statistics'.initial_balance = initial_balance
                /\ statistics'.total_trades = Len(trade_history)
                /\ statistics'.max_drawdown.n <= 0 - initial_balance.n
                /\ Len(statistics'.sharpe_ratio.returns) = Len(pnl_history) - 1
           /\ UNCHANGED <<config, ledger, current_step, pnl_history>>]_vars

\* after a BUY and a SELL that closed it, two steps into the episode, a
\* non-zero total return is reported
C23_Witness ==
    /\ Reported
    /\ Len(pnl_history) = 2
    /\ Len(trade_history) = 1
    /\ statistics.total_return # Zero
    /\ statistics.final_balance = balance
    /\ balance # initial_balance


\* C24: for two instances built on the same candle series, in any interleaving
\* of reset()/step() calls each call moves the instance it is made on to the
\* state the same call produces from that instance's own state alone, leaves
\* the other instance's account state, cursor, trade history and PnL history
\* unchanged, and never changes the candle series.
\* the states one call (a reset, or a step with a valid action) leads to from
\* engine state S on an instance run alone
AloneOutcomes(S) ==
    {ResetOn(S)} \cup
    (IF StepCompletesOn(S)
     THEN {After(S, <<a>>) : a \in {HOLD, BUY, SELL}}
     ELSE {S})

firstInstance == <<ledger, current_step, pnl_history, op, error, action, reward, done, info,
                   truncated, observation>>

WindowCandles == (current_step - window_size + 1) .. current_step

C25_DataError ==
    Observed =>
        \A k \in WindowCandles : data[k] > 0 /\ candles[k].volume > 0


\* the number, counted from reset(), of the step() call being made, and the
\* number of the step on which done is due
StepNumber == Len(pnl_history) + 1
DoneDue == IF Len(data) - 2 * window_size - 1 > 1
           THEN Len(data) - 2 * window_size - 1 ELSE 1
TerminationStep ==
    /\ error' = "none"
    /\ current_step' = window_size + StepNumber
    /\ done' = (StepNumber = DoneDue)
    /\ truncated' = FALSE

\* C26 as stated: from reset(), for any action sequence, done is false on
\* every step k < len(series) - 2 * window_size - 1 and true on step
\* k = max(1, len(series) - 2 * window_size - 1), the cursor being
\* window_size + k after k steps, and truncated is false on every step.
C26_DoneOnStepK ==
    [][(StepCalled /\ StepNumber <= DoneDue) => TerminationStep]_vars

\* C26: when the series is longer than the window, from reset(), for any
\* action sequence, done is false on every step
\* k < len(series) - 2 * window_size - 1 and true on step
\* k = max(1, len(series) - 2 * window_size - 1), the cursor being
\* window_size + k after k steps, and truncated is false on every step; so a
\* loop that steps until done always terminates: while it runs its next step
\* completes, and the number of steps left until done is positive and falls by
\* one with every step.
StepsLeft == DoneDue - Len(pnl_history)

C26_Termination ==
    [][Len(data) > window_size =>
           /\ (StepCalled /\ StepNumber <= DoneDue) =>
                  /\ TerminationStep
                  /\ StepsLeft' = StepsLeft - 1
           /\ LoopRunning' => (StepCompletes' /\ StepsLeft' > 0)
           /\ (op' = "step" /\ done') => StepsLeft' = 0]_vars

\* done was returned on the last of several steps, not before
C26_Witness ==
    /\ op = "step" /\ error = "none" /\ done /\ ~truncated
    /\ Len(pnl_history) = DoneDue
    /\ DoneDue >= 2
    /\ window_size = MaxWindow
    /\ current_step = max_steps


\* C27: in every reachable state position is exactly -max_position_size, 0 or
\* +max_position_size; so a BUY that passes the cap check finds the account
\* flat or short at the cap, a SELL flat or long at the cap, and the additive
\* branch (adding to an open position below the cap and overwriting its
\* entry_price) is never taken.
C27_ThreeValues ==
    /\ position \in {RNeg(max_position_size), Zero, max_position_size}
    /\ BuyGuard(Ledger) => position \in {RNeg(max_position_size), Zero}
    /\ SellGuard(Ledger) => position \in {Zero, max_position_size}

\* a BUY has flipped a short at the cap into a long at the cap
C27_Witness ==
    /\ op = "step" /\ error = "none" /\ action = BUY
    /\ position = max_position_size
    /\ Len(trade_history) = 1
    /\ LastTrade.position = RNeg(max_position_size)
    /\ max_position_size = Rat(1, 10)

\* C28: once a step has executed a BUY or SELL in an episode, position is
\* non-zero in every later state until reset(): no action closes a position
\* without opening the opposite one. Hence when done is returned after a trade
\* the last opened position is still open, with its entry price, and has no
\* record in the trade history.
C28_NoWayBackToFlat ==
    [][/\ (StepReturns /\ Applied \in {BUY, SELL}) => position' # Zero
       /\ (StepCalled /\ position # Zero) => position' # Zero
       /\ (position # Zero /\ position' = Zero) => op' = "reset"
       /\ (StepReturns /\ done' /\ trades_count' >= 1) =>
              /\ position' # Zero
              /\ entry_price' > 0
              /\ Len(trade_history') = trades_count' - 1
              /\ \A i \in DOMAIN trade_history' :
                     trade_history'[i].step <= current_step]_vars

\* done is returned by a HOLD while the short opened two steps before is
\* still open, at a loss that no ledger field shows
C28_Witness ==
    /\ op = "step" /\ error = "none" /\ done /\ action = HOLD
    /\ position = RNeg(max_position_size)
    /\ trades_count = 1 /\ trade_history = <<>>
    /\ balance = initial_balance /\ total_pnl = Zero
    /\ Len(pnl_history) >= 2
    /\ entry_price < data[current_step]

\* C30: in every reachable state the number of trade records is
\* trades_count - 1 when trades_count >= 1 and 0 when trades_count = 0; so
\* the total_trades get_statistics() reports is one less than the trades_count
\* reported in info whenever any trade was made.
C30_TradeCountRelation ==
    /\ Len(trade_history) = IF trades_count >= 1 THEN trades_count - 1 ELSE 0
    /\ (Reported /\ trades_count >= 1) =>
           /\ info.trades_count = trades_count
           /\ statistics.total_trades = info.trades_count - 1

\* three trades were made and two closures are reported
C30_Witness ==
    /\ Reported
    /\ trades_count = 3 /\ info.trades_count = 3
    /\ Len(trade_history) = 2
    /\ statistics.total_trades = 2


\* sum(r['pnl'] for r in trade_history): values added up in order, each
\* addition rounded to p bits (p = 0: exact)
RECURSIVE SumInOrder(_, _)
SumInOrder(pnls, p) ==
    IF pnls = <<>> THEN Zero
    ELSE LET x == RAdd(SumInOrder(SubSeq(pnls, 1, Len(pnls) - 1), p), pnls[Len(pnls)])
         IN  IF p = 0 THEN x ELSE Round(x, p)

RecordedPnls == [i \in DOMAIN trade_history |-> trade_history[i].pnl]

\* how far the float balance is from the exact sum of initial_balance and the
\* float total_pnl
LedgerGap == RAbs(RSub(floats.balance, RAdd(initial_balance, floats.total_pnl)))

C31_FlatMeansZeroReward ==
    [][(StepReturns /\ position' = Zero) =>
           /\ reward' = Zero
           /\ Applied = HOLD
           /\ position = Zero]_vars

\* a HOLD from flat on a step that has a next candle returned reward 0
C31_Witness ==
    /\ op = "step" /\ error = "none" /\ action = HOLD
    /\ position = Zero /\ reward = Zero
    /\ current_step < Len(data)
    /\ data[current_step + 1] # data[current_step]

\* the reward step(HOLD) returns from the current state
HoldReward == StepOn(State, HOLD).reward
\* the relative move of the close over the step, 0 where there is no next candle
MoveOrNone == IF Rewarded THEN Move ELSE Zero
\* the reward of a step with post-action position p: return of the position,
\* less commission and slippage, less the penalty of a requested BUY or SELL
RewardWithCosts(p) ==
    RSub(RSub(RMul(MoveOrNone, p), Costs(RAbs(p))),
         IF Applied = HOLD THEN Zero ELSE ActivityPenalty)

\* C32 as stated: a BUY at position = +max_position_size (a SELL at
\* -max_position_size) changes nothing in the ledger and is rewarded 0.0001
\* less than HOLD from the same state; commission and slippage are subtracted
\* on every step with an open position, HOLD steps included.
C32_PenaltyAndCostsEveryStep ==
    [][/\ (StepTaken /\ Applied = BUY /\ position = max_position_size) =>
              /\ UNCHANGED ledger
              /\ reward' = RSub(HoldReward, ActivityPenalty)
       /\ (StepTaken /\ Applied = SELL /\ position = RNeg(max_position_size)) =>
              /\ UNCHANGED ledger
              /\ reward' = RSub(HoldReward, ActivityPenalty)
       /\ (StepTaken /\ position' # Zero) => reward' = RewardWithCosts(position')]_vars

\* C32: on a step whose pre-advance cursor is below len(series) - 1, a BUY at
\* position = +max_position_size (a SELL at -max_position_size) changes nothing
\* in the ledger and is rewarded 0.0001 less than HOLD from the same state, and
\* commission and slippage are subtracted whenever a position is open, HOLD
\* steps included.  On a step at the last index the ledger is likewise
\* unchanged but the reward is 0 for HOLD, BUY and SELL alike.
C32_PenaltyAndCosts ==
    [][/\ (StepTaken /\ Applied = BUY /\ position = max_position_size) =>
              /\ UNCHANGED ledger
              /\ reward' = IF Rewarded THEN RSub(HoldReward, ActivityPenalty) ELSE Zero
       /\ (StepTaken /\ Applied = SELL /\ position = RNeg(max_position_size)) =>
              /\ UNCHANGED ledger
              /\ reward' = IF Rewarded THEN RSub(HoldReward, ActivityPenalty) ELSE Zero
       /\ (StepTaken /\ position' # Zero) =>
              reward' = IF Rewarded THEN RewardWithCosts(position') ELSE Zero
       /\ (StepTaken /\ ~Rewarded) => (reward' = Zero /\ HoldReward = Zero)]_vars

\* a BUY was issued while long at the cap, on a step that has a next candle:
\* the long opened one step earlier is untouched
C32_Witness ==
    /\ op = "step" /\ error = "none" /\ action = BUY
    /\ position = max_position_size
    /\ trades_count = 1 /\ trade_history = <<>>
    /\ Len(pnl_history) = 2
    /\ current_step < Len(data)
    /\ entry_price = data[window_size + 1]
    /\ data[window_size + 1] # data[window_size + 2]
    /\ reward = RSub(CalculateReward(position, current_step - 1, HOLD), ActivityPenalty)


\* C34: for every series with len(series) >= window_size + 1 and every action
\* sequence, each step from reset() up to and including the first step that
\* returns done completes and reads only candle indices in
\* [0, len(series) - 1] (fill candle, next candle for the reward, window of
\* the new observation); and when len(series) >= window_size + 2 none of these
\* steps takes the zero-reward boundary branch.
C34_ReadsInBounds ==
    [][(StepCalled /\ Len(data) >= window_size + 1) =>
           /\ StepReturns
           /\ StepReads(current_step) \subseteq 0 .. (Len(data) - 1)
           /\ Len(data) >= window_size + 2 =>
                  /\ current_step < Len(data) - 1
                  /\ RewardReads(current_step) = {current_step, current_step + 1}]_vars

\* an episode of several steps has ended with done, its last step a SELL that
\* read the next candle for its reward
C34_Witness ==
    /\ op = "step" /\ error = "none" /\ done /\ action = SELL
    /\ Len(data) >= window_size + 2
    /\ Len(pnl_history) >= 2
    /\ current_step < Len(data)
    /\ reward # Zero

\* the step on which done is first returned in an episode
FirstDone == Len(data) - 2 * window_size - 1
\* steps completed since done was first returned
StepsPastDone == Len(pnl_history) - FirstDone

\* C35: when len(series) >= 2 * window_size + 2 and the caller keeps calling
\* step() after done, exactly window_size + 1 further steps complete
\* (pre-advance cursors len(series) - window_size - 1 through len(series) - 1),
\* and the next step, at cursor = len(series), fails for every action, HOLD
\* included, leaving the ledger, both histories and the cursor unchanged.
C35_SteppingPastDone ==
    [][(StepCalled /\ Len(data) >= 2 * window_size + 2 /\ StepsPastDone >= 0) =>
           IF StepsPastDone < window_size + 1
           THEN /\ StepReturns
                /\ done'
                /\ current_step = Len(data) - window_size - 1 + StepsPastDone
                /\ current_step \in (Len(data) - window_size - 1) .. (Len(data) - 1)
                /\ current_step' = current_step + 1
           ELSE /\ StepRaises
                /\ StepsPastDone = window_size + 1
                /\ current_step = Len(data)
                /\ UNCHANGED <<ledger, pnl_history, current_step>>]_vars

\* a HOLD at cursor = len(series) has raised after window_size + 1 steps past
\* done, with a position still open
C35_Witness ==
    /\ op = "step" /\ error = "IndexError" /\ action = HOLD
    /\ Len(data) >= 2 * window_size + 2
    /\ StepsPastDone = window_size + 1
    /\ current_step = Len(data)
    /\ position # Zero


\* what the first engine had left after the step the second has just repeated
EarlierOutcome == earlier.outcomes[earlier.at]
Repeated == earlier.phase = "replay" /\ earlier.at >= 1

\* C33: two engines that differ only in commission_rate and slippage_rate, run
\* on the same candle series with the same action sequence, have identical
\* balance, position, entry_price, total_pnl, trades_count, trade history and
\* done flags after every step; only the rewards differ.
C33_CostsNeverReachLedger ==
    Repeated =>
        /\ op = "step" /\ error = "none"
        /\ action = earlier.actions[earlier.at]
        /\ Ledger = EarlierOutcome.ledger
        /\ done = EarlierOutcome.done
        /\ current_step = EarlierOutcome.current_step
        /\ reward # EarlierOutcome.reward =>
               /\ position # Zero
               /\ current_step - 1 < Len(data) - 1

\* the second engine has repeated a flip of the first: the same realized PnL
\* is in both balances, and the rewards of the step differ
C33_Witness ==
    /\ Repeated
    /\ earlier.at >= 2
    /\ Len(trade_history) >= 1
    /\ balance # initial_balance
    /\ balance = EarlierOutcome.ledger.balance
    /\ reward # EarlierOutcome.reward
    /\ <<commission_rate, slippage_rate>> # <<DefaultCommission, DefaultSlippage>>

====
